---- MODULE Spec2Model ----
(***************************************************************************)
(* Model of src/enwar.py: the extractive summarizer (word-frequency        *)
(* scoring, largest-k selection) for English and Arabic text, and the      *)
(* /summarize request handler around it.                                   *)
(*                                                                         *)
(* A text is a sequence of characters (one-character strings, FATHA        *)
(* standing for an Arabic diacritical mark).  Weights and scores are exact *)
(* fractions [num, den]; Python computes them as floats, which agree with  *)
(* the exact values on the small counts of this model.                     *)
(***************************************************************************)
EXTENDS Integers, Sequences, FiniteSets, TLC

(* ---------------------------- bounds ---------------------------------- *)

\* Longest text enumerated exhaustively over CoreAlphabet.
MaxTextLen == 4

(* ---------------------------- characters ------------------------------ *)

LF == "\n"
CR == "\r"
QUOTE == "\""
FATHA == "fatha"

CoreAlphabet == {"x", "y", ".", " "}

\* str.isspace()
IsSpace(c) == c \in {" ", LF, CR}

\* punctuation characters (token.is_punct / camel_tools punctuation class)
IsPunctChar(c) == c \in {".", QUOTE}

\* Arabic diacritical marks, the characters dediac_ar deletes
IsDiacritic(c) == c = FATHA

UpperCase == <<"A", "B", "C", "D", "E", "F", "G", "H", "I", "J", "K", "L", "M",
               "N", "O", "P", "Q", "R", "S", "T", "U", "V", "W", "X", "Y", "Z">>

LowerCase == <<"a", "b", "c", "d", "e", "f", "g", "h", "i", "j", "k", "l", "m",
               "n", "o", "p", "q", "r", "s", "t", "u", "v", "w", "x", "y", "z">>

\* str.lower() on one character
LowerChar(c) ==
    IF \E i \in 1..Len(UpperCase) : UpperCase[i] = c
    THEN LowerCase[CHOOSE i \in 1..Len(UpperCase) : UpperCase[i] = c]
    ELSE c

\* str.lower()
Lower(s) == [i \in 1..Len(s) |-> LowerChar(s[i])]

\* nlp_en.Defaults.stop_words, restricted to the words of the model's alphabet
StopWords == {<<"a">>}

(* ---------------------------- sequences ------------------------------- *)

Max(a, b) == IF a >= b THEN a ELSE b

RECURSIVE BoundedSeq(_, _)
BoundedSeq(S, n) ==
    IF n = 0 THEN {<<>>}
    ELSE LET shorter == BoundedSeq(S, n - 1)
         IN  shorter \cup {Append(s, c) : s \in {t \in shorter : Len(t) = n - 1}, c \in S}

RECURSIVE Concat(_)
\* ''.join(parts)
Concat(parts) == IF parts = <<>> THEN <<>> ELSE Head(parts) \o Concat(Tail(parts))

RECURSIVE Join(_)
\* ' '.join(parts)
Join(parts) ==
    IF parts = <<>> THEN <<>>
    ELSE IF Len(parts) = 1 THEN parts[1]
    ELSE parts[1] \o <<" ">> \o Join(Tail(parts))

RECURSIVE Split(_)
\* text.split('.'): the chunks between periods; always at least one chunk
Split(s) ==
    IF \A i \in 1..Len(s) : s[i] # "." THEN <<s>>
    ELSE LET p == CHOOSE i \in 1..Len(s) : s[i] = "." /\ \A j \in 1..(i - 1) : s[j] # "."
         IN  <<SubSeq(s, 1, p - 1)>> \o Split(SubSeq(s, p + 1, Len(s)))

RECURSIVE Delete(_, _)
\* the characters of s that are not in drop, in order
Delete(s, drop) ==
    IF s = <<>> THEN <<>>
    ELSE (IF Head(s) \in drop THEN <<>> ELSE <<Head(s)>>) \o Delete(Tail(s), drop)

\* a cleaning that forgets the carriage return
clean_response_keeps_cr(s) == Delete(s, {LF, QUOTE})

\* re.sub(r'[\r\n"]', '', text)
clean_response(s) == Delete(s, {CR, LF, QUOTE})

\* camel_tools dediac_ar: delete the diacritical marks
dediac_ar(s) == Delete(s, {c \in {s[i] : i \in 1..Len(s)} : IsDiacritic(c)})

(* ---------------------------- fractions ------------------------------- *)

RECURSIVE GCD(_, _)
GCD(a, b) == IF b = 0 THEN a ELSE GCD(b, a % b)

\* count / max_frequency (true division), kept in lowest terms
Frac(n, d) == LET g == GCD(n, d) IN [num |-> n \div g, den |-> d \div g]

Zero == [num |-> 0, den |-> 1]

FracAdd(a, b) == Frac(a.num * b.den + b.num * a.den, a.den * b.den)

FracLess(a, b) == a.num * b.den < b.num * a.den

FracEq(a, b) == a.num * b.den = b.num * a.den

(* ---------------------------- tokenizers ------------------------------ *)

RECURSIVE WordRunLen(_)
\* length of the longest prefix of s holding neither whitespace nor punctuation
WordRunLen(s) ==
    IF s = <<>> \/ IsSpace(Head(s)) \/ IsPunctChar(Head(s)) THEN 0
    ELSE 1 + WordRunLen(Tail(s))

RECURSIVE simple_word_tokenize(_)
\* camel_tools simple_word_tokenize: every punctuation character is a token of
\* its own, every maximal run of other non-blank characters is a token
simple_word_tokenize(s) ==
    IF s = <<>> THEN <<>>
    ELSE IF IsSpace(Head(s)) THEN simple_word_tokenize(Tail(s))
    ELSE IF IsPunctChar(Head(s)) THEN <<(<<Head(s)>>)>> \o simple_word_tokenize(Tail(s))
    ELSE LET n == WordRunLen(s)
         IN  <<SubSeq(s, 1, n)>> \o simple_word_tokenize(SubSeq(s, n + 1, Len(s)))

Token(t) == [text |-> t, spacy |-> FALSE]

\* the tokens of one whitespace-delimited span (spaCy splits punctuation off)
SplitSpan(span) == [i \in 1..Len(simple_word_tokenize(span)) |-> Token(simple_word_tokenize(span)[i])]

\* the span collected so far becomes tokens: one whitespace token, or words
Flush(cur, in_ws) ==
    IF cur = <<>> THEN <<>> ELSE IF in_ws THEN <<Token(cur)>> ELSE SplitSpan(cur)

\* doc.c[doc.length - 1].spacy = True
MarkSpacy(toks) == [toks EXCEPT ![Len(toks)].spacy = TRUE]

RECURSIVE EnTok(_, _, _, _)
\* spaCy's Tokenizer loop: a single space after a word is that word's trailing
\* whitespace, any other whitespace run is a token
EnTok(rest, cur, in_ws, toks) ==
    IF rest = <<>> THEN toks \o Flush(cur, in_ws)
    ELSE LET c == Head(rest)
         IN  IF IsSpace(c) # in_ws
             THEN LET flushed == toks \o Flush(cur, in_ws)
                  IN  IF c = " "
                      THEN EnTok(Tail(rest), <<>>, ~in_ws, MarkSpacy(flushed))
                      ELSE EnTok(Tail(rest), <<c>>, ~in_ws, flushed)
             ELSE EnTok(Tail(rest), Append(cur, c), in_ws, toks)

\* the tokens of nlp_en(text)
EnTokenize(s) == IF s = <<>> THEN <<>> ELSE EnTok(s, <<>>, IsSpace(s[1]), <<>>)

\* token.is_punct
is_punct(tok) == Len(tok.text) = 1 /\ IsPunctChar(tok.text[1])

\* token.is_space
is_space(tok) == \A i \in 1..Len(tok.text) : IsSpace(tok.text[i])

\* token.text_with_ws
TextWithWs(tok) == IF tok.spacy THEN tok.text \o <<" ">> ELSE tok.text

\* Span.text of tokens[span[1]..span[2]]: the last token's trailing space dropped
SpanText(toks, span) ==
    Concat([i \in 1..(span[2] - span[1] + 1) |->
              IF i = span[2] - span[1] + 1 THEN toks[span[1] + i - 1].text
              ELSE TextWithWs(toks[span[1] + i - 1])])

\* the sentence boundaries nlp_en may set: a sentence starts at the first token
\* and at any later token that is not whitespace and follows a token that is
\* not whitespace (the parser attaches whitespace to the sentence around it)
SentStartChoices(toks) ==
    SUBSET {i \in 2..Len(toks) :
              ~is_space(toks[i]) /\ \E j \in 1..(i - 1) : ~is_space(toks[j])}

RECURSIVE SpansFrom(_, _, _)
\* doc.sents: the spans between consecutive sentence starts
SpansFrom(first, starts, last) ==
    IF first > last THEN <<>>
    ELSE LET later == {i \in starts : i > first}
         IN  IF later = {} THEN <<(<<first, last>>)>>
             ELSE LET nxt == CHOOSE i \in later : \A j \in later : i <= j
                  IN  <<(<<first, nxt - 1>>)>> \o SpansFrom(nxt, starts, last)

(* ---------------------------- frequency tables ------------------------ *)

\* the number of positions of words holding w
Occurrences(words, w) == Cardinality({i \in 1..Len(words) : words[i] = w})

\* word_frequencies[word] = word_frequencies.get(word, 0) + 1, for every word
CountWords(words) ==
    [w \in {words[i] : i \in 1..Len(words)} |-> Occurrences(words, w)]

RECURSIVE Filter(_, _)
\* the elements of seq that are in keep, in order
Filter(seq, keep) ==
    IF seq = <<>> THEN <<>>
    ELSE (IF Head(seq) \in keep THEN <<Head(seq)>> ELSE <<>>) \o Filter(Tail(seq), keep)

\* the lowercased text of every token
LowerWords(toks) == [i \in 1..Len(toks) |-> Lower(toks[i].text)]

\* summarize_text_english's frequency filter: not a stop word, not punctuation
EnVocabularyWords(toks) ==
    LET kept == {i \in 1..Len(toks) :
                   Lower(toks[i].text) \notin StopWords /\ ~is_punct(toks[i])}
        idx == Filter([i \in 1..Len(toks) |-> i], kept)
    IN  [j \in 1..Len(idx) |-> Lower(toks[idx[j]].text)]

\* a normalizer that divides by the smallest count
MinFrequency(wf) ==
    IF DOMAIN wf = {} THEN 1
    ELSE CHOOSE m \in {wf[w] : w \in DOMAIN wf} : \A w \in DOMAIN wf : m <= wf[w]

\* max(word_frequencies.values(), default=1)
MaxFrequency(wf) ==
    IF DOMAIN wf = {} THEN 1
    ELSE CHOOSE m \in {wf[w] : w \in DOMAIN wf} : \A w \in DOMAIN wf : wf[w] <= m

\* normalize_frequencies: every count divided by the maximum count
normalize_frequencies(wf) ==
    LET max_frequency == MaxFrequency(wf)
    IN  [w \in DOMAIN wf |-> Frac(wf[w], max_frequency)]

\* whether the division in normalize_frequencies raises ZeroDivisionError
NormalizeRaises(wf) == DOMAIN wf # {} /\ MaxFrequency(wf) = 0

(* ---------------------------- sentence scores ------------------------- *)

\* A dict is the sequence of its items [key, score] in insertion order.

HasKey(d, key) == \E i \in 1..Len(d) : d[i].key = key

\* d.get(key, 0)
DictGet(d, key) ==
    IF HasKey(d, key) THEN d[CHOOSE i \in 1..Len(d) : d[i].key = key].score ELSE Zero

\* d[key] = v
DictPut(d, key, v) ==
    IF HasKey(d, key)
    THEN [i \in 1..Len(d) |-> IF d[i].key = key THEN [key |-> key, score |-> v] ELSE d[i]]
    ELSE Append(d, [key |-> key, score |-> v])

RECURSIVE ScoreWords(_, _, _, _)
\* the inner loop: every word of the sentence that is in the table adds its weight
ScoreWords(d, key, words, wf) ==
    IF words = <<>> THEN d
    ELSE LET w == Head(words)
             next == IF w \in DOMAIN wf
                     THEN DictPut(d, key, FracAdd(DictGet(d, key), wf[w]))
                     ELSE d
         IN  ScoreWords(next, key, Tail(words), wf)

RECURSIVE ScoreSentences(_, _, _, _)
\* the outer loop over the sentences keys[i], whose words are wordlists[i]
ScoreSentences(d, keys, wordlists, wf) ==
    IF keys = <<>> THEN d
    ELSE ScoreSentences(ScoreWords(d, Head(keys), Head(wordlists), wf),
                        Tail(keys), Tail(wordlists), wf)

\* calculate_sentence_scores(doc, word_frequencies): keyed by the sentence span
calculate_sentence_scores(toks, sents, wf) ==
    ScoreSentences(<<>>, sents,
                   [i \in 1..Len(sents) |->
                      LowerWords(SubSeq(toks, sents[i][1], sents[i][2]))],
                   wf)

\* summarize_text_arabic's scoring loop: keyed by the chunk's text
ArabicSentenceScores(chunks, wf) ==
    ScoreSentences(<<>>, chunks,
                   [i \in 1..Len(chunks) |-> simple_word_tokenize(chunks[i])], wf)

(* ---------------------------- selection ------------------------------- *)

\* int(x) of the quotient n / d: truncation towards zero
Trunc(n, d) == IF n >= 0 THEN n \div d ELSE -((-n) \div d)

\* a sentence count that rounds up instead of down
NumSentencesCeil(n, r) == Max(1, Trunc(n * r.num + r.den - 1, r.den))

\* max(1, int(len(sentences) * summary_ratio))
NumSentences(n, r) == Max(1, Trunc(n * r.num, r.den))

\* max(iterable, key=...): the first item with the largest score
MaxFirst(d) ==
    CHOOSE i \in 1..Len(d) :
        /\ \A j \in 1..Len(d) : ~FracLess(d[i].score, d[j].score)
        /\ \A j \in 1..(i - 1) : FracLess(d[j].score, d[i].score)

RECURSIVE InsertBeforeEqual(_, _)
\* an insertion that is not stable: item goes in front of the items equal to it
InsertBeforeEqual(sorted, item) ==
    IF sorted = <<>> THEN <<item>>
    ELSE IF ~FracLess(item.score, Head(sorted).score) THEN <<item>> \o sorted
    ELSE <<Head(sorted)>> \o InsertBeforeEqual(Tail(sorted), item)

RECURSIVE InsertDesc(_, _)
\* item goes behind every item of the descending list whose score is >= its own
InsertDesc(sorted, item) ==
    IF sorted = <<>> THEN <<item>>
    ELSE IF FracLess(Head(sorted).score, item.score) THEN <<item>> \o sorted
    ELSE <<Head(sorted)>> \o InsertDesc(Tail(sorted), item)

RECURSIVE SortedReverse(_)
\* sorted(iterable, key=..., reverse=True): descending and stable
SortedReverse(d) ==
    IF d = <<>> THEN <<>>
    ELSE InsertDesc(SortedReverse(SubSeq(d, 1, Len(d) - 1)), d[Len(d)])

\* tuple comparison (k, order, elem) < (k', order', elem')
TupleLess(a, b) ==
    FracLess(a.k, b.k) \/ (FracEq(a.k, b.k) /\ a.order < b.order)

\* result[0] of the heap: its smallest tuple
HeapTop(heap) == CHOOSE t \in heap : \A u \in heap : u = t \/ TupleLess(t, u)

RECURSIVE HeapLoop(_, _, _)
\* for elem in it: if top < k: heapreplace(result, (k, order, elem)); order -= 1
HeapLoop(heap, rest, order) ==
    IF rest = <<>> THEN heap
    ELSE LET elem == Head(rest)
         IN  IF FracLess(HeapTop(heap).k, elem.score)
             THEN HeapLoop((heap \ {HeapTop(heap)})
                             \cup {[k |-> elem.score, order |-> order, elem |-> elem.key]},
                           Tail(rest), order - 1)
             ELSE HeapLoop(heap, Tail(rest), order)

RECURSIVE SortTuplesReverse(_)
\* result.sort(reverse=True)
SortTuplesReverse(heap) ==
    IF heap = {} THEN <<>>
    ELSE LET top == CHOOSE t \in heap : \A u \in heap : u = t \/ TupleLess(u, t)
         IN  <<top>> \o SortTuplesReverse(heap \ {top})

\* heapq.nlargest(n, sentence_scores, key=sentence_scores.get), for n >= 1
nlargest(n, d) ==
    IF n = 1
    THEN IF d = <<>> THEN <<>> ELSE <<d[MaxFirst(d)].key>>
    ELSE IF n >= Len(d)
    THEN LET s == SortedReverse(d) IN [i \in 1..Len(s) |-> s[i].key]
    ELSE LET heap == {[k |-> d[i].score, order |-> 1 - i, elem |-> d[i].key] : i \in 1..n}
             final == SortTuplesReverse(HeapLoop(heap, SubSeq(d, n + 1, Len(d)), -n))
         IN  [i \in 1..Len(final) |-> final[i].elem]

(* ---------------------------- inputs ---------------------------------- *)

Langs == {"en", "ar", "fr"}

\* summary_ratio as a fraction; 3/10 is the default of summarize_text
DefaultRatio == [num |-> 3, den |-> 10]

Ratios == {DefaultRatio, [num |-> 1, den |-> 2], [num |-> 1, den |-> 1]}

\* texts beyond the exhaustive ones: repeated chunks, ten chunks, upper case,
\* a stop word, quotes, line breaks, a diacritical mark
ScenarioTexts ==
    { <<"x", ".", "x", ".", "y", " ", "y">>,
      <<"y", ".", "x", "y", ".", "x", " ", "x">>,
      <<"X", " ", "x", " ", "a", ".">>,
      <<"a", " ", "a", ".">>,
      <<QUOTE, "x", QUOTE, LF, "y", ".", CR, LF>>,
      <<"x", FATHA, " ", "x", ".", " ", "y">>,
      <<FATHA>>,
      <<LF>> }

Texts == BoundedSeq(CoreAlphabet, MaxTextLen) \cup ScenarioTexts

\* ten chunks, three of them with words; given to the Arabic pipeline only
\* (nlp_en could split its thirteen tokens into sentences in 4096 ways)
TenChunkText == <<"x", ".", "y", ".", "x", " ", "y", ".", ".", ".", ".", ".", ".", ".">>

\* "Language not supported"
LanguageNotSupported ==
    <<"L", "a", "n", "g", "u", "a", "g", "e", " ", "n", "o", "t", " ",
      "s", "u", "p", "p", "o", "r", "t", "e", "d">>

NoFile == [present |-> FALSE, filename |-> <<>>, parts |-> <<>>, corrupt |-> FALSE]

Filenames ==
    { <<>>,
      <<"a", ".", "p", "d", "f">>,
      <<"A", ".", "D", "O", "C", "X">>,
      <<"a", ".", "t", "x", "t">>,
      <<"a", ".", "e", "x", "e">>,
      <<"t", "x", "t">> }

\* the page, paragraph or body texts a file is made of
PartTexts == { <<>>, <<"x", ".">>, <<QUOTE, "y", CR>> }

\* Longest list of parts (pages, paragraphs) in an uploaded file.
MaxParts == 2

Files ==
    {NoFile} \cup
    { [present |-> TRUE, filename |-> f, parts |-> ps, corrupt |-> c] :
        f \in Filenames, ps \in BoundedSeq(PartTexts, MaxParts), c \in BOOLEAN }

\* Largest raw count in a table handed to normalize_frequencies directly.
MaxCount == 3

TableWords == {<<"x">>, <<"y">>, <<".">>}

Tables == UNION {[ws -> 1..MaxCount] : ws \in SUBSET TableWords}

(* ---------------------------- state ----------------------------------- *)

VARIABLES
    entry,              \* the function the caller invoked
    pc,                 \* the position in the running code
    file,               \* request.files.get('file')
    text,               \* the text argument / the handler's extracted text
    lang,               \* the lang argument / the detected language
    ratio,              \* summary_ratio
    local_text,         \* summarize_text_arabic's text after dediac_ar
    tokens,             \* the tokens of doc = nlp_en(text)
    sentences,          \* doc.sents (spans) / text.split('.') (chunks)
    word_frequencies,
    sentence_scores,
    summary_sentences,
    result,             \* the value summarize_text returned
    responses,          \* the responses the handler sent
    calls,              \* the functions entered so far
    first               \* the sentences of an earlier summary, when re-summarizing

vars == <<entry, pc, file, text, lang, ratio, local_text, tokens, sentences,
          word_frequencies, sentence_scores, summary_sentences, result,
          responses, calls, first>>

NoTable == [w \in {} |-> 0]

\* the locals of a call that has not run yet
FreshLocals ==
    /\ local_text = <<>>
    /\ tokens = <<>>
    /\ sentences = <<>>
    /\ sentence_scores = <<>>
    /\ summary_sentences = <<>>
    /\ result = <<>>

\* a caller invokes summarize_text(text, lang, summary_ratio)
InitSummarize ==
    /\ entry = "summarize_text"
    /\ pc = "summarize_text"
    /\ file = NoFile
    /\ \/ text \in Texts /\ lang \in Langs
       \/ text = TenChunkText /\ lang = "ar"
    /\ ratio \in Ratios
    /\ word_frequencies = NoTable

\* a caller invokes normalize_frequencies(word_frequencies)
InitNormalize ==
    /\ entry = "normalize_frequencies"
    /\ pc = "normalize_frequencies"
    /\ file = NoFile
    /\ text = <<>>
    /\ lang = "en"
    /\ ratio = DefaultRatio
    /\ word_frequencies \in Tables

\* a client posts to /summarize
InitRequest ==
    /\ entry = "handle_summarize_request"
    /\ pc = "handle_summarize_request"
    /\ file \in Files
    /\ text = <<>>
    /\ lang = "None"
    /\ ratio = DefaultRatio
    /\ word_frequencies = NoTable

Init ==
    /\ InitSummarize \/ InitNormalize \/ InitRequest
    /\ FreshLocals
    /\ responses = <<>>
    /\ calls = {}
    /\ first = <<>>

(* ---------------------------- summarize_text -------------------------- *)

\* a dispatch that sends every tag but ar to the English pipeline
SummarizeTextDefaultEnglish ==
    /\ pc = "summarize_text"
    /\ calls' = calls \cup {"summarize_text"}
    /\ pc' = IF lang = "ar" THEN "summarize_text_arabic" ELSE "summarize_text_english"
    /\ UNCHANGED <<entry, file, text, lang, ratio, local_text, tokens, sentences,
                   word_frequencies, sentence_scores, summary_sentences, result,
                   responses, first>>

\* summarize_text: the dispatch on lang
SummarizeText ==
    /\ pc = "summarize_text"
    /\ calls' = calls \cup {"summarize_text"}
    /\ pc' = IF lang = "en" THEN "summarize_text_english"
             ELSE IF lang = "ar" THEN "summarize_text_arabic"
             ELSE "returned"
    /\ result' = IF lang \in {"en", "ar"} THEN result ELSE LanguageNotSupported
    /\ UNCHANGED <<entry, file, text, lang, ratio, local_text, tokens, sentences,
                   word_frequencies, sentence_scores, summary_sentences,
                   responses, first>>

(* ---------------------------- summarize_text_english ------------------ *)

\* the English frequency step without the return on an empty table
EnglishFrequenciesNoReturn ==
    /\ pc = "summarize_text_english"
    /\ \E starts \in SentStartChoices(EnTokenize(text)) :
         /\ tokens' = EnTokenize(text)
         /\ sentences' = SpansFrom(1, starts, Len(EnTokenize(text)))
    /\ word_frequencies' = CountWords(EnVocabularyWords(EnTokenize(text)))
    /\ calls' = calls \cup {"summarize_text_english"}
    /\ pc' = "english_normalize"
    /\ UNCHANGED <<entry, file, text, lang, ratio, local_text, sentence_scores,
                   summary_sentences, result, responses, first>>

\* doc = nlp_en(text), the frequency loop and the empty-table return
EnglishFrequencies ==
    /\ pc = "summarize_text_english"
    /\ \E starts \in SentStartChoices(EnTokenize(text)) :
         /\ tokens' = EnTokenize(text)
         /\ sentences' = SpansFrom(1, starts, Len(EnTokenize(text)))
    /\ word_frequencies' = CountWords(EnVocabularyWords(EnTokenize(text)))
    /\ calls' = calls \cup {"summarize_text_english"}
    /\ pc' = IF DOMAIN word_frequencies' = {} THEN "returned" ELSE "english_normalize"
    /\ result' = <<>>
    /\ UNCHANGED <<entry, file, text, lang, ratio, local_text, sentence_scores,
                   summary_sentences, responses, first>>

\* word_frequencies = normalize_frequencies(word_frequencies)
EnglishNormalize ==
    /\ pc = "english_normalize"
    /\ word_frequencies' = normalize_frequencies(word_frequencies)
    /\ calls' = calls \cup {"normalize_frequencies"}
    /\ pc' = "english_score"
    /\ UNCHANGED <<entry, file, text, lang, ratio, local_text, tokens, sentences,
                   sentence_scores, summary_sentences, result, responses, first>>

\* sentence_scores = calculate_sentence_scores(doc, word_frequencies)
EnglishScore ==
    /\ pc = "english_score"
    /\ sentence_scores' = calculate_sentence_scores(tokens, sentences, word_frequencies)
    /\ calls' = calls \cup {"calculate_sentence_scores"}
    /\ pc' = "english_select"
    /\ UNCHANGED <<entry, file, text, lang, ratio, local_text, tokens, sentences,
                   word_frequencies, summary_sentences, result, responses, first>>

\* num_sentences and nlargest
EnglishSelect ==
    /\ pc = "english_select"
    /\ summary_sentences' = nlargest(NumSentences(Len(sentences), ratio), sentence_scores)
    /\ calls' = calls \cup {"nlargest"}
    /\ pc' = "english_join"
    /\ UNCHANGED <<entry, file, text, lang, ratio, local_text, tokens, sentences,
                   word_frequencies, sentence_scores, result, responses, first>>

\* final_summary = ' '.join(sentence.text ...); return
EnglishJoin ==
    /\ pc = "english_join"
    /\ result' = Join([i \in 1..Len(summary_sentences) |->
                         SpanText(tokens, summary_sentences[i])])
    /\ pc' = "returned"
    /\ UNCHANGED <<entry, file, text, lang, ratio, local_text, tokens, sentences,
                   word_frequencies, sentence_scores, summary_sentences, responses,
                   calls, first>>

(* ---------------------------- summarize_text_arabic ------------------- *)

\* dediac_ar, simple_word_tokenize, the frequency loop and the empty-table return
ArabicFrequencies ==
    /\ pc = "summarize_text_arabic"
    /\ local_text' = dediac_ar(text)
    /\ word_frequencies' = CountWords(simple_word_tokenize(dediac_ar(text)))
    /\ calls' = calls \cup {"summarize_text_arabic"}
    /\ pc' = IF DOMAIN word_frequencies' = {} THEN "returned" ELSE "arabic_normalize"
    /\ result' = <<>>
    /\ UNCHANGED <<entry, file, text, lang, ratio, tokens, sentences, sentence_scores,
                   summary_sentences, responses, first>>

\* word_frequencies = normalize_frequencies(word_frequencies)
ArabicNormalize ==
    /\ pc = "arabic_normalize"
    /\ word_frequencies' = normalize_frequencies(word_frequencies)
    /\ calls' = calls \cup {"normalize_frequencies"}
    /\ pc' = "arabic_score"
    /\ UNCHANGED <<entry, file, text, lang, ratio, local_text, tokens, sentences,
                   sentence_scores, summary_sentences, result, responses, first>>

\* sentences = text.split('.') and the scoring loop
ArabicScore ==
    /\ pc = "arabic_score"
    /\ sentences' = Split(local_text)
    /\ sentence_scores' = ArabicSentenceScores(Split(local_text), word_frequencies)
    /\ calls' = calls \cup {"calculate_sentence_scores"}
    /\ pc' = "arabic_select"
    /\ UNCHANGED <<entry, file, text, lang, ratio, local_text, tokens,
                   word_frequencies, summary_sentences, result, responses, first>>

\* num_sentences and nlargest
ArabicSelect ==
    /\ pc = "arabic_select"
    /\ summary_sentences' = nlargest(NumSentences(Len(sentences), ratio), sentence_scores)
    /\ calls' = calls \cup {"nlargest"}
    /\ pc' = "arabic_join"
    /\ UNCHANGED <<entry, file, text, lang, ratio, local_text, tokens, sentences,
                   word_frequencies, sentence_scores, result, responses, first>>

\* final_summary = ' '.join(summary_sentences); return
ArabicJoin ==
    /\ pc = "arabic_join"
    /\ result' = Join(summary_sentences)
    /\ pc' = "returned"
    /\ UNCHANGED <<entry, file, text, lang, ratio, local_text, tokens, sentences,
                   word_frequencies, sentence_scores, summary_sentences, responses,
                   calls, first>>

(* ---------------------------- normalize_frequencies ------------------- *)

\* the direct call of normalize_frequencies
NormalizeCall ==
    /\ pc = "normalize_frequencies"
    /\ word_frequencies' = normalize_frequencies(word_frequencies)
    /\ calls' = calls \cup {"normalize_frequencies"}
    /\ pc' = IF NormalizeRaises(word_frequencies) THEN "raised" ELSE "returned"
    /\ UNCHANGED <<entry, file, text, lang, ratio, local_text, tokens, sentences,
                   sentence_scores, summary_sentences, result, responses, first>>

(* ---------------------------- the caller ----------------------------- *)

\* the texts of the selected sentences, in the order of the summary
SelectedTexts ==
    IF lang = "en"
    THEN [i \in 1..Len(summary_sentences) |-> SpanText(tokens, summary_sentences[i])]
    ELSE summary_sentences

\* the caller summarizes the summary it got, with ratio 1.0
Resummarize ==
    /\ pc = "returned"
    /\ entry = "summarize_text"
    /\ first = <<>>
    /\ lang \in {"en", "ar"}
    /\ result # <<>>
    /\ first' = <<SelectedTexts>>
    /\ text' = result
    /\ ratio' = [num |-> 1, den |-> 1]
    /\ pc' = "summarize_text"
    /\ local_text' = <<>>
    /\ tokens' = <<>>
    /\ sentences' = <<>>
    /\ word_frequencies' = NoTable
    /\ sentence_scores' = <<>>
    /\ summary_sentences' = <<>>
    /\ result' = <<>>
    /\ calls' = {}
    /\ UNCHANGED <<entry, file, lang, responses>>

(* ---------------------------- handle_summarize_request ---------------- *)

\* str.endswith
EndsWith(s, suffix) ==
    Len(s) >= Len(suffix) /\ SubSeq(s, Len(s) - Len(suffix) + 1, Len(s)) = suffix

DotPdf == <<".", "p", "d", "f">>
DotDocx == <<".", "d", "o", "c", "x">>
DotTxt == <<".", "t", "x", "t">>

\* filename = uploaded_file.filename.lower()
LowerFilename == Lower(file.filename)

\* extract_text_from_pdf: the pages' texts concatenated
extract_text_from_pdf(parts) == Concat(parts)

\* extract_text_from_docx: every paragraph followed by a newline
extract_text_from_docx(parts) == Concat([i \in 1..Len(parts) |-> parts[i] \o <<LF>>])

\* uploaded_file.read().decode('utf-8')
DecodeTxt(parts) == Concat(parts)

\* langdetect raises LangDetectException when the text has no letters
NoFeatures(s) == \A i \in 1..Len(s) : IsSpace(s[i]) \/ IsPunctChar(s[i])

Fail(code, message) == [code |-> code, status |-> "fail", error |-> message]

\* no file, or an empty filename: 400
HandleNoFile ==
    /\ pc = "handle_summarize_request"
    /\ ~file.present \/ file.filename = <<>>
    /\ responses' = Append(responses, Fail(400, "No file uploaded or selected"))
    /\ pc' = "responded"
    /\ UNCHANGED <<entry, file, text, lang, ratio, local_text, tokens, sentences,
                   word_frequencies, sentence_scores, summary_sentences, result,
                   calls, first>>

\* the extension is none of .pdf, .docx, .txt: 400
HandleUnsupportedType ==
    /\ pc = "handle_summarize_request"
    /\ file.present /\ file.filename # <<>>
    /\ ~EndsWith(LowerFilename, DotPdf)
    /\ ~EndsWith(LowerFilename, DotDocx)
    /\ ~EndsWith(LowerFilename, DotTxt)
    /\ responses' = Append(responses, Fail(400, "Unsupported file type"))
    /\ pc' = "responded"
    /\ UNCHANGED <<entry, file, text, lang, ratio, local_text, tokens, sentences,
                   word_frequencies, sentence_scores, summary_sentences, result,
                   calls, first>>

\* the extraction by extension; a file the extractor cannot read raises
HandleExtract ==
    /\ pc = "handle_summarize_request"
    /\ file.present /\ file.filename # <<>>
    /\ \/ EndsWith(LowerFilename, DotPdf)
       \/ EndsWith(LowerFilename, DotDocx)
       \/ EndsWith(LowerFilename, DotTxt)
    /\ text' = IF file.corrupt THEN text
               ELSE IF EndsWith(LowerFilename, DotPdf) THEN extract_text_from_pdf(file.parts)
               ELSE IF EndsWith(LowerFilename, DotDocx) THEN extract_text_from_docx(file.parts)
               ELSE DecodeTxt(file.parts)
    /\ pc' = IF file.corrupt THEN "except" ELSE "detect"
    /\ UNCHANGED <<entry, file, lang, ratio, local_text, tokens, sentences,
                   word_frequencies, sentence_scores, summary_sentences, result,
                   responses, calls, first>>

\* language = detect(text), which raises on a text without letters
HandleDetectRaises ==
    /\ pc = "detect"
    /\ NoFeatures(text)
    /\ pc' = "except"
    /\ UNCHANGED <<entry, file, text, lang, ratio, local_text, tokens, sentences,
                   word_frequencies, sentence_scores, summary_sentences, result,
                   responses, calls, first>>

\* a detection step that hands every detected language to summarize_text
HandleDetectNoReject ==
    /\ pc = "detect"
    /\ ~NoFeatures(text)
    /\ \E language \in Langs : lang' = language
    /\ pc' = "summarize_text"
    /\ UNCHANGED <<entry, file, text, ratio, local_text, tokens, sentences,
                   word_frequencies, sentence_scores, summary_sentences, result,
                   responses, calls, first>>

\* language = detect(text); a language other than en and ar: 400;
\* otherwise summary = summarize_text(text, lang=language)
HandleDetect ==
    /\ pc = "detect"
    /\ ~NoFeatures(text)
    /\ \E language \in Langs :
         /\ lang' = language
         /\ IF language \notin {"en", "ar"}
            THEN /\ responses' = Append(responses, Fail(400, "Language not supported"))
                 /\ pc' = "responded"
            ELSE /\ responses' = responses
                 /\ pc' = "summarize_text"
    /\ UNCHANGED <<entry, file, text, ratio, local_text, tokens, sentences,
                   word_frequencies, sentence_scores, summary_sentences, result,
                   calls, first>>

\* cleaned_summary = clean_response(summary) and the 200 response
HandleRespond ==
    /\ pc = "returned"
    /\ entry = "handle_summarize_request"
    /\ responses' = Append(responses,
                           [code |-> 200, status |-> "success",
                            summary |-> clean_response(result),
                            lengthSUMMARY |-> Len(clean_response(result)),
                            lengthTEXT |-> Len(text),
                            language |-> lang,
                            filename |-> LowerFilename])
    /\ pc' = "responded"
    /\ UNCHANGED <<entry, file, text, lang, ratio, local_text, tokens, sentences,
                   word_frequencies, sentence_scores, summary_sentences, result,
                   calls, first>>

\* except Exception: 500 with the fixed message
HandleExcept ==
    /\ pc = "except"
    /\ responses' = Append(responses,
                           Fail(500, "Something went wrong ,please try again."))
    /\ pc' = "responded"
    /\ UNCHANGED <<entry, file, text, lang, ratio, local_text, tokens, sentences,
                   word_frequencies, sentence_scores, summary_sentences, result,
                   calls, first>>

Next ==
    \/ SummarizeText
    \/ EnglishFrequencies
    \/ EnglishNormalize
    \/ EnglishScore
    \/ EnglishSelect
    \/ EnglishJoin
    \/ ArabicFrequencies
    \/ ArabicNormalize
    \/ ArabicScore
    \/ ArabicSelect
    \/ ArabicJoin
    \/ NormalizeCall
    \/ Resummarize
    \/ HandleNoFile
    \/ HandleUnsupportedType
    \/ HandleExtract
    \/ HandleDetectRaises
    \/ HandleDetect
    \/ HandleRespond
    \/ HandleExcept

Spec == Init /\ [][Next]_vars

(* ---------------------------- properties ------------------------------ *)

Min(a, b) == IF a <= b THEN a ELSE b

\* the selection step of either pipeline has run
Selected == "nlargest" \in calls

\* C1: in both pipelines, with n the number of sentences of the document and
\* k = max(1, floor(n * ratio)), the summary holds exactly k sentences when at
\* least k sentences were scored and every scored sentence otherwise (scored
\* sentences are the entries of sentence_scores: sentences of the same text
\* count once); ten sentences at ratio 0.3 give 3, two sentences give 1.
C1_SummarySize ==
    Selected =>
        LET n == Len(sentences)
            k == IF (n * ratio.num) \div ratio.den >= 1
                 THEN (n * ratio.num) \div ratio.den ELSE 1
            scored == Len(sentence_scores)
        IN  /\ scored >= k => Len(summary_sentences) = k
            /\ scored < k => Len(summary_sentences) = scored
            /\ n = 10 /\ ratio = DefaultRatio /\ scored >= 3 => Len(summary_sentences) = 3
            /\ n = 2 /\ ratio = DefaultRatio /\ scored >= 1 => Len(summary_sentences) = 1
            /\ pc = "returned" => result = Join(SelectedTexts)

\* ten sentences at ratio 0.3: three are selected
C1_Witness ==
    /\ pc = "returned"
    /\ Selected
    /\ Len(sentences) = 10
    /\ ratio = DefaultRatio
    /\ Len(summary_sentences) = 3
    /\ Len(sentence_scores) >= 3

\* every token of the text is filtered out of the vocabulary
VocabularyEmpty ==
    IF lang = "en"
    THEN \A i \in 1..Len(EnTokenize(text)) :
            \/ Lower(EnTokenize(text)[i].text) \in StopWords
            \/ is_punct(EnTokenize(text)[i])
    ELSE \A i \in 1..Len(text) : IsSpace(text[i]) \/ IsDiacritic(text[i])

\* C4: on a text whose vocabulary is empty, summarize_text with lang en or ar
\* returns the empty string, does not raise, and runs no normalization,
\* scoring or selection step.
C4_EmptyVocabulary ==
    (lang \in {"en", "ar"} /\ entry # "normalize_frequencies" /\ VocabularyEmpty) =>
        /\ calls \cap {"normalize_frequencies", "calculate_sentence_scores", "nlargest"} = {}
        /\ pc \in {"handle_summarize_request", "detect", "except", "summarize_text",
                   "summarize_text_english", "summarize_text_arabic",
                   "returned", "responded"}
        /\ pc = "returned" => result = <<>>
        /\ pc \in {"summarize_text_english", "summarize_text_arabic"} =>
              ENABLED (EnglishFrequencies \/ ArabicFrequencies)

\* an English text of stop words and punctuation only has returned ""
C4_Witness ==
    /\ pc = "returned"
    /\ lang = "en"
    /\ text = <<"a", " ", "a", ".">>
    /\ calls = {"summarize_text", "summarize_text_english"}
    /\ result = <<>>

\* C5: for a language tag other than en and ar summarize_text returns
\* "Language not supported" and runs neither pipeline; for en it runs only the
\* English pipeline, for ar only the Arabic one.
C5_Dispatch ==
    /\ (lang \notin {"en", "ar"} /\ "summarize_text" \in calls) =>
          /\ pc = "returned"
          /\ result = LanguageNotSupported
          /\ calls = {"summarize_text"}
    /\ lang = "en" => "summarize_text_arabic" \notin calls
    /\ lang = "ar" => "summarize_text_english" \notin calls
    /\ (lang = "en" /\ pc \in {"returned", "responded"} /\ "summarize_text" \in calls) =>
          "summarize_text_english" \in calls
    /\ (lang = "ar" /\ pc \in {"returned", "responded"} /\ "summarize_text" \in calls) =>
          "summarize_text_arabic" \in calls

\* summarize_text(text, 'fr', ratio) has returned the sentinel
C5_Witness ==
    /\ pc = "returned"
    /\ lang = "fr"
    /\ text # <<>>
    /\ result = LanguageNotSupported

\* the position in the document of a scored sentence: its span's first token,
\* or the first chunk with its text
DocPos(key) ==
    IF lang = "en" THEN key[1]
    ELSE CHOOSE i \in 1..Len(sentences) :
            sentences[i] = key /\ \A j \in 1..(i - 1) : sentences[j] # key

RECURSIVE SumWeights(_)
\* the sum of the weights of the words that are in the frequency table
SumWeights(words) ==
    IF words = <<>> THEN Zero
    ELSE FracAdd(IF Head(words) \in DOMAIN word_frequencies
                 THEN word_frequencies[Head(words)] ELSE Zero,
                 SumWeights(Tail(words)))

\* a sentence's score: the sum of the normalized weights of its words
OwnScore(key) ==
    IF lang = "en" THEN SumWeights(LowerWords(SubSeq(tokens, key[1], key[2])))
    ELSE SumWeights(simple_word_tokenize(key))

SelectedKeys == {summary_sentences[i] : i \in 1..Len(summary_sentences)}

ScoredKeys == {sentence_scores[i].key : i \in 1..Len(sentence_scores)}

\* C2: the selected sentences are the k sentences with the largest scores, a
\* sentence's score being the sum of the normalized weights of its words that
\* are in the frequency table: every selected sentence scores at least as much
\* as every scored sentence left out, and of two sentences with equal scores
\* the one met first in the document is preferred.
C2_LargestScores ==
    Selected =>
        \A s \in SelectedKeys : \A u \in ScoredKeys \ SelectedKeys :
            \/ FracLess(OwnScore(u), OwnScore(s))
            \/ FracEq(OwnScore(u), OwnScore(s)) /\ DocPos(s) < DocPos(u)

\* C3: the sentences of the summary are in the order of the source document.
C3_DocumentOrder ==
    Selected =>
        \A i, j \in 1..Len(summary_sentences) :
            i < j => DocPos(summary_sentences[i]) < DocPos(summary_sentences[j])

\* the score sentence_scores holds for a key
ScoreOf(key) == sentence_scores[CHOOSE i \in 1..Len(sentence_scores) :
                                    sentence_scores[i].key = key].score

\* C3 as amended: the sentences of the summary are in descending order of the
\* scores in sentence_scores, sentences of equal score in the order they first
\* occur in the document, and the returned string joins them in that order.
C3_ScoreOrder ==
    Selected =>
        /\ \A i, j \in 1..Len(summary_sentences) :
              i < j =>
                 \/ FracLess(ScoreOf(summary_sentences[j]), ScoreOf(summary_sentences[i]))
                 \/ /\ FracEq(ScoreOf(summary_sentences[j]), ScoreOf(summary_sentences[i]))
                    /\ DocPos(summary_sentences[i]) < DocPos(summary_sentences[j])
        /\ pc = "returned" => result = Join(SelectedTexts)

\* a summary whose first sentence comes later in the document than its second
C3_Witness ==
    /\ pc = "returned"
    /\ Selected
    /\ Len(summary_sentences) >= 2
    /\ DocPos(summary_sentences[1]) > DocPos(summary_sentences[2])
    /\ FracLess(ScoreOf(summary_sentences[2]), ScoreOf(summary_sentences[1]))

\* the set of the elements of a sequence
Range(seq) == {seq[i] : i \in 1..Len(seq)}

\* the texts of the sentences of the document being summarized
SentenceTexts ==
    IF lang = "en" THEN {SpanText(tokens, sentences[i]) : i \in 1..Len(sentences)}
    ELSE Range(sentences)

\* C7: summarizing a non-empty summary S again with ratio 1.0 returns the set
\* of sentences S was built from, none dropped, merged or split.  (For English
\* the sentences of S are those nlp_en finds in it; the formula reads the claim
\* for the case that nlp_en finds the sentences S was joined from.)
C7_Idempotence ==
    (entry = "summarize_text" /\ first # <<>> /\ pc = "returned"
       /\ (lang = "en" => SentenceTexts = Range(first[1]))) =>
        Range(SelectedTexts) = Range(first[1])

\* a character that is whitespace
IsBlankAt(s, i) == i \in 1..Len(s) /\ IsSpace(s[i])

\* the positions in the joined string of the spaces the join inserted
JoinPositions(parts) ==
    {Len(Join(SubSeq(parts, 1, i))) + 1 : i \in 1..(Len(parts) - 1)}

\* C10: the returned summary is the selected sentences joined by exactly one
\* space, with no leading whitespace, no trailing whitespace and no run of two
\* or more spaces at a sentence join.
C10_SingleSpaceJoin ==
    (pc = "returned" /\ Selected) =>
        /\ result = Join(SelectedTexts)
        /\ ~IsBlankAt(result, 1)
        /\ ~IsBlankAt(result, Len(result))
        /\ \A p \in JoinPositions(SelectedTexts) :
              ~IsBlankAt(result, p - 1) /\ ~IsBlankAt(result, p + 1)

\* the uploaded file's name ends, in any letter case, in .pdf, .docx or .txt
SupportedType ==
    \E suffix \in {DotPdf, DotDocx, DotTxt} : EndsWith(Lower(file.filename), suffix)

\* C6: every request ends in exactly one response, with code 400, 200 or 500:
\* 400 and status fail when the file is missing, the filename is empty, the
\* extension is none of .pdf/.docx/.txt or the detected language is not en or
\* ar, summarize_text never having been invoked; 500 with status fail and the
\* fixed message when extraction, detection or summarization raised; 200 with
\* status success otherwise.  (The four steps left out of ENABLED below are
\* guarded by pc alone.)
C6_Responses ==
    entry = "handle_summarize_request" =>
        LET noFile == ~file.present \/ file.filename = <<>>
            badType == ~noFile /\ ~SupportedType
            raised == ~noFile /\ ~badType /\ (file.corrupt \/ NoFeatures(text))
            badLang == ~noFile /\ ~badType /\ ~raised /\ lang \notin {"en", "ar"}
        IN  /\ Len(responses) <= 1
            /\ (pc = "responded") <=> (Len(responses) = 1)
            /\ pc \notin {"responded", "summarize_text_english", "english_score",
                          "summarize_text_arabic", "arabic_score"} =>
                  ENABLED (HandleNoFile \/ HandleUnsupportedType \/ HandleExtract
                           \/ HandleDetectRaises \/ HandleDetect \/ HandleRespond
                           \/ HandleExcept \/ SummarizeText \/ EnglishNormalize
                           \/ EnglishSelect \/ EnglishJoin \/ ArabicNormalize
                           \/ ArabicSelect \/ ArabicJoin)
            /\ pc = "responded" =>
                 /\ responses[1].code \in {400, 200, 500}
                 /\ (noFile \/ badType \/ badLang) <=> (responses[1].code = 400)
                 /\ responses[1].code = 400 =>
                       /\ responses[1].status = "fail"
                       /\ "summarize_text" \notin calls
                 /\ raised <=> (responses[1].code = 500)
                 /\ responses[1].code = 500 =>
                       responses[1] = [code |-> 500, status |-> "fail",
                                       error |-> "Something went wrong ,please try again."]
                 /\ responses[1].code = 200 =>
                       /\ responses[1].status = "success"
                       /\ "summarize_text" \in calls

\* a request whose file the extractor cannot read was answered with 500
C6_Witness ==
    /\ pc = "responded"
    /\ file.present
    /\ file.corrupt
    /\ SupportedType
    /\ Len(responses) = 1
    /\ responses[1].code = 500

\* the characters of s other than carriage return, newline and double quote
KeptChars(s) ==
    LET idx == Filter([i \in 1..Len(s) |-> i],
                      {i \in 1..Len(s) : s[i] # CR /\ s[i] # LF /\ s[i] # QUOTE})
    IN  [j \in 1..Len(idx) |-> s[idx[j]]]

\* C8: in every 200 response 'summary' holds no carriage return, newline or
\* double quote, is summarize_text's output with exactly those characters
\* deleted, 'lengthSUMMARY' is its length; the cleaning touches only the joined
\* string, after the selection, and cleaning twice changes nothing.
C8_CleanSummary ==
    \A i \in 1..Len(responses) :
        responses[i].code = 200 =>
            /\ \A j \in 1..Len(responses[i].summary) :
                  responses[i].summary[j] \notin {CR, LF, QUOTE}
            /\ responses[i].summary = KeptChars(result)
            /\ responses[i].lengthSUMMARY = Len(KeptChars(result))
            /\ clean_response(responses[i].summary) = responses[i].summary
            /\ Selected => result = Join(SelectedTexts)

\* a 200 response whose summary lost characters to the cleaning
C8_Witness ==
    /\ Len(responses) = 1
    /\ responses[1].code = 200
    /\ responses[1].summary # <<>>
    /\ \E j \in 1..Len(result) : result[j] = CR
    /\ \E j \in 1..Len(result) : result[j] = QUOTE
    /\ responses[1].lengthSUMMARY < Len(result)

\* the next step runs normalize_frequencies on word_frequencies
NormalizeStep == pc \in {"normalize_frequencies", "english_normalize", "arabic_normalize"}

\* C9: normalize_frequencies leaves the keys alone; on a non-empty table of
\* positive counts every weight is its count divided by the largest count,
\* lies in (0, 1], and the largest weight is exactly 1; on an empty table it
\* returns the empty table and does not divide by zero.
C9_Normalized ==
    [][NormalizeStep =>
         /\ DOMAIN word_frequencies' = DOMAIN word_frequencies
         /\ pc' # "raised"
         /\ DOMAIN word_frequencies # {} =>
               \E m \in DOMAIN word_frequencies :
                  /\ \A w \in DOMAIN word_frequencies :
                        /\ word_frequencies[w] <= word_frequencies[m]
                        /\ word_frequencies'[w].num * word_frequencies[m]
                             = word_frequencies[w] * word_frequencies'[w].den
                        /\ 0 < word_frequencies'[w].num
                        /\ word_frequencies'[w].num <= word_frequencies'[w].den
                  /\ word_frequencies'[m].num = word_frequencies'[m].den
         /\ DOMAIN word_frequencies = {} => word_frequencies' = word_frequencies
      ]_vars

\* normalize_frequencies has returned a table with a weight below 1
C9_Witness ==
    /\ entry = "normalize_frequencies"
    /\ pc = "returned"
    /\ \E w \in DOMAIN word_frequencies :
          word_frequencies[w].num < word_frequencies[w].den
    /\ \E w \in DOMAIN word_frequencies :
          word_frequencies[w].num = word_frequencies[w].den

====
